---- MODULE Spec2Model ----
(***************************************************************************)
(* A model of the GridFS bucket extension: the helper methods of           *)
(* GridFSBucketExt (src/bucket/common.rs) and FileSync                     *)
(* (src/bucket/file_sync.rs) with the error conversions of src/error.rs,   *)
(* running against the chunked store they call into.                       *)
(*                                                                         *)
(* Every await of a method is a step of its own, so that the steps of      *)
(* calls in flight at the same time interleave. The callers are concurrent *)
(* flows of control, each awaiting its calls one after the other, on a     *)
(* bucket they share or on clones of it; the bucket keeps no state of its  *)
(* own between calls, so that callers on clones show every interleaving    *)
(* callers on one bucket can show (write_bytes and upload_from, which take *)
(* &mut self, overlap with nothing else on the same bucket).               *)
(*                                                                         *)
(* The store itself (find, open_download_stream, upload_from_stream of the *)
(* mongodb_gridfs crate) is not part of the repository's source. It is     *)
(* modelled from the contract the specification requires of it (section 6: *)
(* ordered chunk delivery, atomic record publication on upload completion, *)
(* filter-based metadata lookup); an unsorted lookup answers in insertion  *)
(* order, the natural order of an insert-only collection.                  *)
(*                                                                         *)
(* A tokio::fs::File does not write when write_all returns: it hands the   *)
(* buffer to a blocking thread and reports the outcome of that write to    *)
(* the next operation on the file. The write of a file that was dropped    *)
(* meanwhile still runs, and nobody learns its outcome; so does the create *)
(* of a File::create whose future was dropped.                             *)
(***************************************************************************)
EXTENDS Integers, Sequences, FiniteSets, Bags, TLC

VARIABLES
    files,    \* the files collection: published file documents, in insertion order
    chunks,   \* the chunks collection: files_id -> the chunk payloads, in order n
    nextId,   \* the next ObjectId the store will assign
    want,     \* ghost: files_id -> the bytes the upload of that id was given so far
    up,       \* per caller: the write_bytes / upload_from call in flight
    calls,    \* per caller: the read_bytes / read_string / download_to call in flight
    bg,       \* the bag of operations the blocking threads still hold for dropped futures and files
    fs,       \* the local filesystem: path -> bytes, or NoFile
    done,     \* ghost: the writes that returned Ok, in completion order
    res       \* the call that has just returned, or NoRes

vars == <<files, chunks, nextId, want, up, calls, bg, fs, done, res>>

----------------------------------------------------------------------------
(* Bounds of the model. *)

MaxRecords == 2

\* The records written in the runs with the local filesystem.
MaxSyncRecords == 1

\* The download_to calls in flight and the operations left to the blocking
\* threads, together, when another download_to gets under way.
MaxOpen == 2
MaxLen == 3
ChunkSize == 2

Min(a, b) == IF a < b THEN a ELSE b

Names == {"a.txt", "b.txt"}
Paths == {"p"}
Callers == {1, 2}

\* The i-th byte of the test pattern; the last byte is 0xC8, which no UTF-8
\* text can end with.
Byte(i) == IF i = MaxLen THEN 200 ELSE 64 + i

Content(k) == [i \in 1..k |-> Byte(i)]

\* The contents written: nothing, exactly one full chunk, and the longest,
\* which spills into a last, shorter chunk.
Contents == {Content(0), Content(Min(ChunkSize, MaxLen)), Content(MaxLen)}

\* The value of a path that holds no file.
NoFile == <<-1>>

\* How a call into the store or the filesystem can go wrong.
LookupFaults == {"none", "find", "item"}

IoFaults == {"none", "fail"}

----------------------------------------------------------------------------
(* Results and errors (src/error.rs). *)

Ok(v) == [kind |-> "Ok", val |-> v]

Err(k) == [kind |-> k, val |-> 0]

\* impl From<GridFSError> for GridFSExtError: the crate's own FileNotFound.
FromGridFSError(e) == "FileNotFound"

\* impl From<mongodb_gridfs::GridFSError> for GridFSExtError.
FromLibGridFSError(e) ==
    IF e = "LibMongoError" THEN "MongoError" ELSE FromGridFSError("FileNotFound")

\* impl From<mongodb::error::Error> for GridFSExtError.
FromMongoError(e) == "MongoError"

\* impl From<std::io::Error> for GridFSExtError.
FromIoError(e) == "IOError"

----------------------------------------------------------------------------
(* The store, as the extension sees it. *)

NoDoc == [id |-> 0, filename |-> "", length |-> 0]

\* The documents of the files collection with this filename, in stored order.
FindByFilename(name) == SelectSeq(files, LAMBDA d : d.filename = name)

\* The documents of the files collection with this _id.
FindById(id) == SelectSeq(files, LAMBDA d : d.id = id)

\* GridFSBucket::find: an error, or a cursor over the matching documents
\* whose items are themselves results.
FindCall(f, docs) ==
    IF f = "find"
    THEN [ok |-> FALSE, cursor |-> <<>>]
    ELSE [ok |-> TRUE,
          cursor |-> (IF f = "item" THEN <<[ok |-> FALSE, doc |-> NoDoc]>> ELSE <<>>)
                     \o [i \in 1..Len(docs) |-> [ok |-> TRUE, doc |-> docs[i]]]]

\* GridFSBucket::open_download_stream: an error, FileNotFound for an id with
\* no file document, or a stream over the chunks of the id.
OpenDownloadStream(id, f) ==
    IF f # "none"
    THEN [ok |-> FALSE, err |-> "LibMongoError"]
    ELSE IF FindById(id) = <<>>
    THEN [ok |-> FALSE, err |-> "LibFileNotFound"]
    ELSE [ok |-> TRUE, err |-> ""]

\* cursor.next() of a download stream that has yielded pos - 1 buffers: the
\* chunk n = pos - 1 of the id, or nothing when there is none.
StreamNext(id, pos) ==
    IF pos <= Len(chunks[id]) THEN <<chunks[id][pos]>> ELSE <<>>

\* The next buffer upload_from_stream reads from its source.
TakeChunk(src) == SubSeq(src, 1, Min(ChunkSize, Len(src)))

DropChunk(src) == SubSeq(src, Min(ChunkSize, Len(src)) + 1, Len(src))

----------------------------------------------------------------------------
(* GridFSBucketExt (src/bucket/common.rs). *)

\* Mutant of Id: an empty cursor is taken for a failed lookup.
IdEmptyIsMongoError(name, f) ==
    LET r == FindCall(f, FindByFilename(name))
    IN  IF ~r.ok \/ r.cursor = <<>> THEN Err(FromMongoError("find"))
        ELSE IF ~Head(r.cursor).ok THEN Err(FromMongoError("item"))
        ELSE Ok(Head(r.cursor).doc.id)

\* id: the _id of the first document find yields for the filename.
Id(name, f) ==
    LET r == FindCall(f, FindByFilename(name))
    IN  IF ~r.ok THEN Err(FromMongoError("find"))
        ELSE IF r.cursor = <<>> THEN Err(FromGridFSError("FileNotFound"))
        ELSE IF ~Head(r.cursor).ok THEN Err(FromMongoError("item"))
        ELSE Ok(Head(r.cursor).doc.id)

\* find_one_by_id: the first document find yields for the _id.
FindOneById(id, f) ==
    LET r == FindCall(f, FindById(id))
    IN  IF ~r.ok THEN Err(FromMongoError("find"))
        ELSE IF r.cursor = <<>> THEN Err(FromGridFSError("FileNotFound"))
        ELSE IF ~Head(r.cursor).ok THEN Err(FromMongoError("item"))
        ELSE Ok(Head(r.cursor).doc)

IsCont(b, i, lo, hi) == i <= Len(b) /\ b[i] >= lo /\ b[i] <= hi

\* std::io::read_to_string accepts well-formed UTF-8 only.
RECURSIVE Utf8Valid(_)
Utf8Valid(b) ==
    IF b = <<>> THEN TRUE
    ELSE LET c == b[1]
             After(k) == Utf8Valid(SubSeq(b, k + 1, Len(b)))
         IN  IF c < 128 THEN After(1)
             ELSE IF c >= 194 /\ c <= 223 THEN IsCont(b, 2, 128, 191) /\ After(2)
             ELSE IF c >= 224 /\ c <= 239
             THEN /\ IsCont(b, 2, IF c = 224 THEN 160 ELSE 128, IF c = 237 THEN 159 ELSE 191)
                  /\ IsCont(b, 3, 128, 191)
                  /\ After(3)
             ELSE IF c >= 240 /\ c <= 244
             THEN /\ IsCont(b, 2, IF c = 240 THEN 144 ELSE 128, IF c = 244 THEN 143 ELSE 191)
                  /\ IsCont(b, 3, 128, 191)
                  /\ IsCont(b, 4, 128, 191)
                  /\ After(4)
             ELSE FALSE

\* What read_bytes and read_string make of the bytes read: read_string runs
\* them through std::io::read_to_string.
ReadResult(op, bytes) ==
    IF op = "read_string" /\ ~Utf8Valid(bytes)
    THEN Err(FromIoError("InvalidData"))
    ELSE Ok(bytes)

\* Mutant of Exists: the filter on the filename is left out.
ExistsAnyFile(name, f) ==
    LET r == FindCall(f, files)
    IN  IF ~r.ok THEN Err(FromMongoError("find")) ELSE Ok(r.cursor # <<>>)

\* Mutant of Exists: a failed find is answered with false.
ExistsSwallowsError(name, f) ==
    LET r == FindCall(f, FindByFilename(name))
    IN  IF ~r.ok THEN Ok(FALSE) ELSE Ok(r.cursor # <<>>)

\* exists: whether the cursor of find yields anything at all.
Exists(name, f) ==
    LET r == FindCall(f, FindByFilename(name))
    IN  IF ~r.ok THEN Err(FromMongoError("find")) ELSE Ok(r.cursor # <<>>)

----------------------------------------------------------------------------
(* Calls and what they return. *)

\* Ghost: how many writes to the name have returned Ok so far, by the place
\* of the last of them in done; 0 when there is none.
Mark(name) ==
    LET s == {i \in DOMAIN done : done[i].name = name}
    IN  IF s = {} THEN 0 ELSE CHOOSE i \in s : \A j \in s : j <= i

\* A returned call: the operation, its arguments, the kind and value of its
\* result, the files_id it worked on, and (ghost) what went wrong in it and
\* the Mark of its name when it was made.
R(op, name, path, data, r, id, cause, mark) ==
    [op |-> op, name |-> name, path |-> path, data |-> data,
     kind |-> r.kind, val |-> r.val, id |-> id, cause |-> cause, mark |-> mark]

NoRes == R("none", "", "", <<>>, [kind |-> "none", val |-> 0], 0, "none", 0)

Cancelled == [kind |-> "Cancelled", val |-> 0]

IdleUp ==
    [st |-> "idle", op |-> "", id |-> 0, name |-> "", path |-> "", src |-> <<>>, off |-> 0]

\* A read_bytes, read_string or download_to in flight, after its id has
\* resolved: where it stands (pc), the files_id, the buffers the stream has
\* yielded (pos - 1 of them), the bytes collected or the buffer in hand, and
\* for download_to the state of its tokio file: the offset, the queued write
\* (pend), whether the last write failed unreported (werr), and (ghost)
\* whether any write failed.
Call(op, name, path, pc, oid) ==
    [op |-> op, name |-> name, path |-> path, pc |-> pc, oid |-> oid,
     pos |-> 1, bytes |-> <<>>, off |-> 0, pend |-> <<>>, werr |-> FALSE,
     lost |-> FALSE, mark |-> Mark(name)]

IdleCall ==
    [op |-> "", name |-> "", path |-> "", pc |-> "idle", oid |-> 0,
     pos |-> 1, bytes |-> <<>>, off |-> 0, pend |-> <<>>, werr |-> FALSE,
     lost |-> FALSE, mark |-> 0]

\* What a call would leave to the blocking threads if it ended now: the
\* write its tokio file has queued, if it returns; if its future is dropped,
\* that or the create it awaits.
Queued(t) ==
    IF t.pend = <<>> THEN EmptyBag
    ELSE SetToBag({[kind |-> "write", path |-> t.path, off |-> t.off, buf |-> t.pend]})

Submitted(t) ==
    IF t.pc = "create"
    THEN SetToBag({[kind |-> "create", path |-> t.path, off |-> 0, buf |-> <<>>]})
    ELSE Queued(t)

\* What is open at once: the calls in flight and what was left behind.
Open == Cardinality({c \in Callers : calls[c].pc # "idle"}) + BagCardinality(bg)

\* The caller awaits a call it has made.
InFlight(c) == up[c].st # "idle" \/ calls[c].pc # "idle"

\* The call goes on: its record is replaced.
Replace(c, u) == calls' = [calls EXCEPT ![c] = u]

\* The call ends with result r: its future, and with it its tokio file, is
\* dropped; what it had handed to a blocking thread (left) still runs.
End(c, r, cause, left) ==
    LET t == calls[c]
    IN  /\ calls' = [calls EXCEPT ![c] = IdleCall]
        /\ bg' = bg (+) left
        /\ res' = R(t.op, t.name, t.path, <<>>, r, t.oid, cause, t.mark)

Init ==
    /\ files = <<>>
    /\ chunks = <<>>
    /\ nextId = 1
    /\ want = <<>>
    /\ up = [c \in Callers |-> IdleUp]
    /\ calls = [c \in Callers |-> IdleCall]
    /\ bg = EmptyBag
    /\ fs = [p \in Paths |-> NoFile]
    /\ done = <<>>
    /\ res = NoRes

----------------------------------------------------------------------------
(* The read-only calls of GridFSBucketExt. *)

CallId(c, name, f) ==
    /\ ~InFlight(c)
    /\ res' = R("id", name, "", <<>>, Id(name, f), 0, f, Mark(name))
    /\ UNCHANGED <<files, chunks, nextId, want, up, calls, bg, fs, done>>

CallFindOneById(c, id, f) ==
    /\ ~InFlight(c)
    /\ res' = R("find_one_by_id", "", "", <<>>, FindOneById(id, f), id, f, 0)
    /\ UNCHANGED <<files, chunks, nextId, want, up, calls, bg, fs, done>>

CallExists(c, name, f) ==
    /\ ~InFlight(c)
    /\ res' = R("exists", name, "", <<>>, Exists(name, f), 0, f, Mark(name))
    /\ UNCHANGED <<files, chunks, nextId, want, up, calls, bg, fs, done>>

\* read_bytes up to its first await: self.id(filename).await?
ReadStart(c, op, name, f) ==
    /\ ~InFlight(c)
    /\ LET i == Id(name, f)
       IN  IF i.kind # "Ok"
           THEN /\ res' = R(op, name, "", <<>>, i, 0, f, Mark(name))
                /\ UNCHANGED calls
           ELSE /\ Replace(c, Call(op, name, "", "open", i.val))
                /\ res' = NoRes
    /\ UNCHANGED <<files, chunks, nextId, want, up, bg, fs, done>>

CallReadBytes(c, name, f) == ReadStart(c, "read_bytes", name, f)

\* read_string is read_bytes(filename).await and then read_to_string.
CallReadString(c, name, f) == ReadStart(c, "read_string", name, f)

\* read_bytes_by_id: self.open_download_stream(id).await?
ReadOpen(c, f) ==
    /\ calls[c].op \in {"read_bytes", "read_string"}
    /\ calls[c].pc = "open"
    /\ LET s == OpenDownloadStream(calls[c].oid, f)
       IN  IF ~s.ok
           THEN End(c, Err(FromLibGridFSError(s.err)), f, EmptyBag)
           ELSE /\ Replace(c, [calls[c] EXCEPT !.pc = "next"])
                /\ res' = NoRes
                /\ UNCHANGED bg
    /\ UNCHANGED <<files, chunks, nextId, want, up, fs, done>>

\* read_bytes_by_id: one cursor.next().await; bytes.extend(buffer), or
\* Ok(bytes) when the stream is exhausted.
ReadNext(c) ==
    /\ calls[c].op \in {"read_bytes", "read_string"}
    /\ calls[c].pc = "next"
    /\ LET t == calls[c]
           b == StreamNext(t.oid, t.pos)
       IN  IF b # <<>>
           THEN /\ Replace(c, [t EXCEPT !.bytes = @ \o b[1], !.pos = @ + 1])
                /\ res' = NoRes
                /\ UNCHANGED bg
           ELSE End(c, ReadResult(t.op, t.bytes), "none", EmptyBag)
    /\ UNCHANGED <<files, chunks, nextId, want, up, fs, done>>

\* The caller drops the future of a read_bytes, read_string or download_to.
CallCancel(c) ==
    /\ calls[c].pc # "idle"
    /\ End(c, Cancelled, "cancel", Submitted(calls[c]))
    /\ UNCHANGED <<files, chunks, nextId, want, up, fs, done>>

----------------------------------------------------------------------------
(* Writes: write_bytes and upload_from hand a source to upload_from_stream, *)
(* which stores it chunk by chunk and publishes the file document when the  *)
(* source is exhausted. The source of write_bytes is the content it was     *)
(* given; that of upload_from is the open local file, read as the upload    *)
(* goes.                                                                    *)

\* Mutant of FilesOnBegin: the file document is inserted before the chunks.
FilesOnBeginPublished(id, name) ==
    Append(files, [id |-> id, filename |-> name, length |-> 0])

\* The files collection once an upload has begun: nothing is published yet.
FilesOnBegin(id, name) == files

\* The files collection once an upload has completed.
FilesOnComplete(id, name, length) ==
    Append(files, [id |-> id, filename |-> name, length |-> length])

\* What is left of the source of the upload in flight.
Source(c) ==
    IF up[c].op = "upload_from"
    THEN SubSeq(fs[up[c].path], up[c].off + 1, Len(fs[up[c].path]))
    ELSE up[c].src

Begin(c, op, name, path, src) ==
    /\ up' = [up EXCEPT ![c] = [st |-> "busy", op |-> op, id |-> nextId,
                                name |-> name, path |-> path, src |-> src, off |-> 0]]
    /\ chunks' = Append(chunks, <<>>)
    /\ want' = Append(want, src)
    /\ files' = FilesOnBegin(nextId, name)
    /\ nextId' = nextId + 1

\* write_bytes(filename, content): the call is made.
WriteBytes(c, name, content) ==
    /\ ~InFlight(c)
    /\ nextId <= MaxRecords
    /\ Begin(c, "write_bytes", name, "", content)
    /\ res' = NoRes
    /\ UNCHANGED <<calls, bg, fs, done>>

\* upload_from up to its first await: tokio::fs::File::open(local_path).await?
UploadFrom(c, name, path, fo) ==
    /\ ~InFlight(c)
    /\ IF fs[path] = NoFile \/ fo # "none"
       THEN /\ res' = R("upload_from", name, path, <<>>,
                        Err(FromIoError("open")), 0, "local_open", Mark(name))
            /\ UNCHANGED up
       ELSE /\ nextId <= MaxRecords
            /\ up' = [up EXCEPT ![c] = [IdleUp EXCEPT !.st = "open", !.op = "upload_from",
                                                      !.name = name, !.path = path]]
            /\ res' = NoRes
    /\ UNCHANGED <<files, chunks, nextId, want, calls, bg, fs, done>>

\* upload_from: self.upload_from_stream(filename, async_file, None) is called
\* on the opened file.
UploadBegin(c) ==
    /\ up[c].st = "open"
    /\ nextId <= MaxRecords
    /\ Begin(c, "upload_from", up[c].name, up[c].path, <<>>)
    /\ res' = NoRes
    /\ UNCHANGED <<calls, bg, fs, done>>

\* upload_from_stream reads one buffer from the source and stores it.
UploadChunk(c) ==
    /\ up[c].st = "busy"
    /\ Source(c) # <<>>
    /\ LET buffer == TakeChunk(Source(c))
       IN  /\ chunks' = [chunks EXCEPT ![up[c].id] = Append(@, buffer)]
           /\ up' = [up EXCEPT ![c].src = DropChunk(@), ![c].off = @ + Len(buffer)]
           /\ want' = IF up[c].op = "upload_from"
                      THEN [want EXCEPT ![up[c].id] = @ \o buffer]
                      ELSE want
    /\ res' = NoRes
    /\ UNCHANGED <<files, nextId, calls, bg, fs, done>>

\* The source is exhausted: the record is published and the call returns Ok.
UploadFinish(c) ==
    /\ up[c].st = "busy"
    /\ Source(c) = <<>>
    /\ files' = FilesOnComplete(up[c].id, up[c].name, Len(want[up[c].id]))
    /\ done' = Append(done, [name |-> up[c].name, id |-> up[c].id])
    /\ res' = R(up[c].op, up[c].name, up[c].path, want[up[c].id],
                Ok(IF up[c].op = "upload_from" THEN up[c].id ELSE 0), up[c].id,
                "none", 0)
    /\ up' = [up EXCEPT ![c] = IdleUp]
    /\ UNCHANGED <<chunks, nextId, want, calls, bg, fs>>

\* The store fails during the upload: upload_from_stream returns its error,
\* which the ? of write_bytes / upload_from converts.
UploadFault(c) ==
    /\ up[c].st = "busy"
    /\ res' = R(up[c].op, up[c].name, up[c].path, want[up[c].id],
                Err(FromMongoError("upload")), up[c].id, "remote", 0)
    /\ up' = [up EXCEPT ![c] = IdleUp]
    /\ UNCHANGED <<files, chunks, nextId, want, calls, bg, fs, done>>

\* A read of the local file fails during the upload: the error reaches
\* upload_from as the error of upload_from_stream.
UploadReadFault(c) ==
    /\ up[c].st = "busy"
    /\ up[c].op = "upload_from"
    /\ res' = R(up[c].op, up[c].name, up[c].path, want[up[c].id],
                Err(FromMongoError("upload")), up[c].id, "local_read", 0)
    /\ up' = [up EXCEPT ![c] = IdleUp]
    /\ UNCHANGED <<files, chunks, nextId, want, calls, bg, fs, done>>

\* The caller drops the future of the write.
UploadCancel(c) ==
    /\ up[c].st # "idle"
    /\ res' = R(up[c].op, up[c].name, up[c].path,
                IF up[c].st = "busy" THEN want[up[c].id] ELSE <<>>,
                Cancelled, up[c].id, "cancel", 0)
    /\ up' = [up EXCEPT ![c] = IdleUp]
    /\ UNCHANGED <<files, chunks, nextId, want, calls, bg, fs, done>>

----------------------------------------------------------------------------
(* FileSync (src/bucket/file_sync.rs). *)

\* The caller puts a file at a local path, or removes it, while nothing of
\* its own is under way.
LocalFile(path, d) ==
    /\ \A c \in Callers : ~InFlight(c)
    /\ bg = EmptyBag
    /\ fs' = [fs EXCEPT ![path] = d]
    /\ res' = NoRes
    /\ UNCHANGED <<files, chunks, nextId, want, up, calls, bg, done>>

\* tokio::fs::File::create: the file exists and is empty afterwards.
CreateFile(path) == [fs EXCEPT ![path] = <<>>]

\* A write of buf at the offset off of a file; what lies between the end of
\* the file and the offset reads as zero.
WriteAt(file, off, buf) ==
    IF buf = <<>> THEN file
    ELSE [i \in 1..off |-> IF i <= Len(file) THEN file[i] ELSE 0]
         \o buf
         \o SubSeq(file, off + Len(buf) + 1, Len(file))

\* Mutant of DownloadToStart: the local file is created before the name is
\* resolved.
DownloadToStartCreateFirst(name, path, fi) ==
    [r |-> Id(name, fi), fs |-> CreateFile(path)]

\* download_to up to its first await, self.id(filename).await?: the local
\* path has not been touched.
DownloadToStart(name, path, fi) ==
    [r |-> Id(name, fi), fs |-> fs]

\* With the id resolved, File::create is awaited: the create is handed to a
\* blocking thread.
DownloadTo(c, name, path, fi) ==
    /\ ~InFlight(c)
    /\ LET o == DownloadToStart(name, path, fi)
       IN  /\ fs' = o.fs
           /\ IF o.r.kind # "Ok"
              THEN /\ res' = R("download_to", name, path, <<>>, o.r, 0,
                               IF fi = "none" THEN "id" ELSE "id_" \o fi, Mark(name))
                   /\ UNCHANGED calls
              ELSE /\ Open < MaxOpen
                   /\ Replace(c, Call("download_to", name, path, "create", o.r.val))
                   /\ res' = NoRes
    /\ UNCHANGED <<files, chunks, nextId, want, up, bg, done>>

\* tokio::fs::File::create(local_path).await?: the blocking thread has run
\* the create, and the call goes on with its outcome.
DownloadCreate(c, fc) ==
    /\ calls[c].op = "download_to"
    /\ calls[c].pc = "create"
    /\ IF fc # "none"
       THEN /\ End(c, Err(FromIoError("create")), "local_create", EmptyBag)
            /\ UNCHANGED fs
       ELSE /\ fs' = CreateFile(calls[c].path)
            /\ Replace(c, [calls[c] EXCEPT !.pc = "open"])
            /\ res' = NoRes
            /\ UNCHANGED bg
    /\ UNCHANGED <<files, chunks, nextId, want, up, done>>

\* self.open_download_stream(oid).await?
DownloadOpen(c, fo) ==
    /\ calls[c].op = "download_to"
    /\ calls[c].pc = "open"
    /\ LET s == OpenDownloadStream(calls[c].oid, fo)
       IN  IF ~s.ok
           THEN End(c, Err(FromLibGridFSError(s.err)), "open_stream", Queued(calls[c]))
           ELSE /\ Replace(c, [calls[c] EXCEPT !.pc = "next"])
                /\ res' = NoRes
                /\ UNCHANGED bg
    /\ UNCHANGED <<files, chunks, nextId, want, up, fs, done>>

\* One cursor.next().await of the loop: a buffer to write, or the end of
\* the stream and Ok(oid). The file is dropped without a flush: the write
\* still queued is left behind, and a write that has failed since the last
\* write_all goes unreported.
DownloadNext(c) ==
    /\ calls[c].op = "download_to"
    /\ calls[c].pc = "next"
    /\ LET t == calls[c]
           b == StreamNext(t.oid, t.pos)
       IN  IF b # <<>>
           THEN /\ Replace(c, [t EXCEPT !.bytes = b[1], !.pc = "write"])
                /\ res' = NoRes
                /\ UNCHANGED bg
           ELSE End(c, Ok(t.oid), IF t.lost THEN "local_write" ELSE "none", Queued(t))
    /\ UNCHANGED <<files, chunks, nextId, want, up, fs, done>>

\* file.write_all(&buffer).await?: it waits for the write queued before,
\* returns the error of that write if it failed, and else queues the buffer
\* and returns Ok.
DownloadWriteAll(c) ==
    /\ calls[c].op = "download_to"
    /\ calls[c].pc = "write"
    /\ calls[c].pend = <<>>
    /\ IF calls[c].werr
       THEN End(c, Err(FromIoError("write")), "local_write", Queued(calls[c]))
       ELSE /\ Replace(c, [calls[c] EXCEPT !.pend = calls[c].bytes, !.bytes = <<>>,
                                           !.pos = @ + 1, !.pc = "next"])
            /\ res' = NoRes
            /\ UNCHANGED bg
    /\ UNCHANGED <<files, chunks, nextId, want, up, fs, done>>

\* The blocking thread runs the queued write of a file in use: k bytes of
\* the buffer reach the file, and the write has failed if they are not all.
BlockingWrite(c, k) ==
    LET t == calls[c]
    IN  /\ t.pend # <<>>
        /\ k \in 0..Len(t.pend)
        /\ fs' = [fs EXCEPT ![t.path] = WriteAt(@, t.off, SubSeq(t.pend, 1, k))]
        /\ Replace(c, [t EXCEPT !.pend = <<>>, !.off = @ + k,
                                !.werr = k < Len(t.pend),
                                !.lost = @ \/ k < Len(t.pend)])
    /\ res' = NoRes
    /\ UNCHANGED <<files, chunks, nextId, want, up, bg, done>>

\* The blocking thread runs the queued write of a dropped file.
OrphanWrite(o, k) ==
    /\ o.kind = "write"
    /\ k \in 0..Len(o.buf)
    /\ fs' = [fs EXCEPT ![o.path] = WriteAt(@, o.off, SubSeq(o.buf, 1, k))]
    /\ bg' = bg (-) SetToBag({o})
    /\ res' = NoRes
    /\ UNCHANGED <<files, chunks, nextId, want, up, calls, done>>

\* The blocking thread runs the create of a dropped future: the file is
\* created and truncated all the same, and closed again.
OrphanCreate(o, fc) ==
    /\ o.kind = "create"
    /\ fs' = IF fc = "none" THEN CreateFile(o.path) ELSE fs
    /\ bg' = bg (-) SetToBag({o})
    /\ res' = NoRes
    /\ UNCHANGED <<files, chunks, nextId, want, up, calls, done>>

----------------------------------------------------------------------------

\* Callers that write and read at the same time; the store answers.
Next ==
    \/ \E c \in Callers, n \in Names : CallId(c, n, "none")
    \/ \E c \in Callers, n \in Names : CallExists(c, n, "none")
    \/ \E c \in Callers, n \in Names : CallReadBytes(c, n, "none")
    \/ \E c \in Callers : ReadOpen(c, "none")
    \/ \E c \in Callers : ReadNext(c)
    \/ \E c \in Callers : CallCancel(c)
    \/ \E c \in Callers, n \in Names, d \in Contents : WriteBytes(c, n, d)
    \/ \E c \in Callers : UploadChunk(c)
    \/ \E c \in Callers : UploadFinish(c)
    \/ \E c \in Callers : UploadFault(c)
    \/ \E c \in Callers : UploadCancel(c)

Spec == Init /\ [][Next]_vars

\* One caller, and lookups that may fail.
NextRead ==
    \/ \E n \in Names, f \in LookupFaults : CallId(1, n, f)
    \/ \E i \in 1..MaxRecords, f \in LookupFaults : CallFindOneById(1, i, f)
    \/ \E n \in Names, f \in LookupFaults : CallReadBytes(1, n, f)
    \/ \E n \in Names, f \in LookupFaults : CallReadString(1, n, f)
    \/ \E n \in Names, f \in LookupFaults : CallExists(1, n, f)
    \/ \E f \in IoFaults : ReadOpen(1, f)
    \/ ReadNext(1)
    \/ CallCancel(1)
    \/ \E n \in Names, d \in Contents : WriteBytes(1, n, d)
    \/ UploadChunk(1)
    \/ UploadFinish(1)
    \/ UploadFault(1)
    \/ UploadCancel(1)

SpecRead == Init /\ [][NextRead]_vars

\* The names written in the download runs; the other name is asked for and
\* never stored.
SyncNames == {"a.txt"}

\* The store has room for another record of these runs.
SyncRoom == nextId <= MaxSyncRecords

\* Callers that download to the local filesystem, both at the same time,
\* while the first also writes.
NextSync ==
    \/ \E p \in Paths, d \in Contents \cup {NoFile} : LocalFile(p, d)
    \/ \E n \in SyncNames, d \in Contents : SyncRoom /\ WriteBytes(1, n, d)
    \/ UploadChunk(1)
    \/ UploadFinish(1)
    \/ \E c \in Callers, n \in Names, p \in Paths, fi \in LookupFaults :
          DownloadTo(c, n, p, fi)
    \/ \E c \in Callers, fc \in IoFaults : DownloadCreate(c, fc)
    \/ \E c \in Callers, fo \in IoFaults : DownloadOpen(c, fo)
    \/ \E c \in Callers : DownloadNext(c)
    \/ \E c \in Callers : DownloadWriteAll(c)
    \/ \E c \in Callers, k \in 0..ChunkSize : BlockingWrite(c, k)
    \/ \E o \in BagToSet(bg), k \in 0..ChunkSize : OrphanWrite(o, k)
    \/ \E o \in BagToSet(bg), fc \in IoFaults : OrphanCreate(o, fc)
    \/ \E c \in Callers : CallCancel(c)

SpecSync == Init /\ [][NextSync]_vars

\* One caller that uploads local files.
NextUpload ==
    \/ \E p \in Paths, d \in Contents \cup {NoFile} : LocalFile(p, d)
    \/ \E n \in Names, p \in Paths, fo \in IoFaults : UploadFrom(1, n, p, fo)
    \/ UploadBegin(1)
    \/ UploadChunk(1)
    \/ UploadFinish(1)
    \/ UploadFault(1)
    \/ UploadReadFault(1)
    \/ UploadCancel(1)

SpecUpload == Init /\ [][NextUpload]_vars

----------------------------------------------------------------------------
(* What the properties speak of. *)

\* No file document carries the name.
NoRecord(name) == \A i \in DOMAIN files : files[i].filename # name

\* No file document carries the id.
NoRecordOfId(id) == \A i \in DOMAIN files : files[i].id # id

\* A write to the name has returned Ok.
Written(name) == Mark(name) > 0

\* The id of the write to the name that returned Ok last.
LastWritten(name) == done[Mark(name)].id

\* The buffers of a stream end to end.
RECURSIVE Drain(_, _)
Drain(bytes, stream) ==
    IF stream = <<>> THEN bytes ELSE Drain(bytes \o Head(stream), Tail(stream))

\* The bytes stored for an id: its chunks in order n, end to end.
Stored(id) == Drain(<<>>, chunks[id])

\* The upload of the id stored everything it was given and returned Ok.
Complete(id) ==
    /\ \E i \in DOMAIN done : done[i].id = id
    /\ Stored(id) = want[id]
    /\ \A i \in DOMAIN files : files[i].id = id => files[i].length = Len(want[id])

----------------------------------------------------------------------------
(* C1: a read_bytes(name) made after a write_bytes(name, B) has returned Ok *)
(* returns B, whatever the store held under the name before: it returns the *)
(* bytes of the write to the name that had returned Ok last when it was     *)
(* made, or of one that returned Ok since.                                  *)
C1_RoundTrip ==
    (res.op = "read_bytes" /\ res.mark > 0 /\ res.kind # "Cancelled")
        => /\ res.kind = "Ok"
           /\ \E i \in DOMAIN done :
                 /\ i >= res.mark
                 /\ done[i].name = res.name
                 /\ res.val = want[done[i].id]

(* C2: id(name) is the id of the write to name that returned Ok last, after *)
(* any sequence or interleaving of writes.                                  *)
C2_LastWriteWins ==
    \A n \in Names : Written(n) => Id(n, "none") = Ok(LastWritten(n))

(* C3: exists(name) is false as long as no write to name has returned Ok    *)
(* and true from then on, whatever is written, read, in flight or failed    *)
(* under this or any other name.                                            *)
C3_ExistsTracksWrites ==
    /\ \A n \in Names : Exists(n, "none") = Ok(Written(n))
    /\ (res.op = "exists" /\ res.cause = "none")
         => (res.kind = "Ok" /\ res.val = Written(res.name))

\* exists has answered true for a written name while a write to the other
\* name, not yet complete, has stored chunks and does not exist.
C3_Witness ==
    /\ res.op = "exists" /\ res.kind = "Ok" /\ res.val = TRUE
    /\ \E c \in Callers :
          /\ up[c].st = "busy"
          /\ up[c].name # res.name
          /\ chunks[up[c].id] # <<>>
          /\ Exists(up[c].name, "none") = Ok(FALSE)

(* C4: with no record of the name, id, read_bytes, read_string and          *)
(* download_to fail with FileNotFound, and find_one_by_id does so for an id *)
(* with no record; none of them returns a value or goes beyond the lookup,  *)
(* also when the lookup itself fails.                                       *)
C4_NotFoundWhenAbsent ==
    /\ \A n \in Names : NoRecord(n) =>
          /\ Id(n, "none").kind = "FileNotFound"
          /\ \A f \in LookupFaults : Id(n, f).kind \in {"FileNotFound", "MongoError"}
          /\ \A p \in Paths : DownloadToStart(n, p, "none").r.kind = "FileNotFound"
    /\ \A i \in 1..MaxRecords : NoRecordOfId(i) =>
          /\ FindOneById(i, "none").kind = "FileNotFound"
          /\ \A f \in LookupFaults : FindOneById(i, f).kind \in {"FileNotFound", "MongoError"}
    /\ (res.op \in {"id", "read_bytes", "read_string"} /\ NoRecord(res.name))
         => /\ res.kind \in {"FileNotFound", "MongoError"}
            /\ res.cause = "none" => res.kind = "FileNotFound"
    /\ (res.op = "find_one_by_id" /\ NoRecordOfId(res.id))
         => /\ res.kind \in {"FileNotFound", "MongoError"}
            /\ res.cause = "none" => res.kind = "FileNotFound"
    /\ \A c \in Callers : calls[c].pc # "idle" => ~NoRecord(calls[c].name)

\* read_string has failed with FileNotFound for a name without a record
\* while the other name has one.
C4_Witness ==
    /\ res.op = "read_string" /\ res.kind = "FileNotFound"
    /\ NoRecord(res.name)
    /\ \E n \in Names : ~NoRecord(n)

(* C5: a write that failed or was dropped leaves no record: whatever id     *)
(* resolves for a name is the id of an upload that stored all it was given  *)
(* and returned Ok; otherwise id fails with FileNotFound.                   *)
C5_NoPartialRecord ==
    /\ \A n \in Names :
          LET r == Id(n, "none")
          IN  r.kind = "FileNotFound" \/ (r.kind = "Ok" /\ Complete(r.val))
    /\ \A i \in DOMAIN files : Complete(files[i].id)
    /\ \A c \in Callers : calls[c].pc # "idle" => Complete(calls[c].oid)

\* A write has failed after it stored a chunk but not all of them, and id
\* does not find its name.
C5_Witness ==
    /\ res.op = "write_bytes" /\ res.cause \in {"remote", "cancel"}
    /\ chunks[res.id] # <<>>
    /\ Len(Stored(res.id)) < Len(want[res.id])
    /\ Id(res.name, "none").kind = "FileNotFound"

(* C6, as claimed: exists never fails; whatever the lookup does, it returns *)
(* a boolean, and false for a name without a record.                        *)
C6_ExistsNeverFails ==
    res.op = "exists"
        => /\ res.kind = "Ok"
           /\ NoRecord(res.name) => res.val = FALSE

(* C6, amended: exists never fails with FileNotFound. When find answers,    *)
(* exists returns whether the cursor yields an item, which is false for a   *)
(* name without a record whose cursor yields nothing; when find itself      *)
(* fails, exists returns that failure as MongoError.                        *)
C6_ExistsFailsOnlyWhenFindFails ==
    /\ \A n \in Names, f \in LookupFaults :
          LET r == Exists(n, f)
          IN  IF f = "find"
              THEN r.kind = "MongoError"
              ELSE r = Ok(FindCall(f, FindByFilename(n)).cursor # <<>>)
    /\ \A n \in Names : NoRecord(n) => Exists(n, "none") = Ok(FALSE)
    /\ res.op = "exists"
         => /\ res.kind \in {"Ok", "MongoError"}
            /\ res.kind = "MongoError" <=> res.cause = "find"

\* exists has returned MongoError for a name without a record.
C6_Witness ==
    /\ res.op = "exists" /\ res.cause = "find" /\ res.kind = "MongoError"
    /\ NoRecord(res.name)

(* C7: a download_to that returned Ok returned the id that id(name)         *)
(* resolves, and on return the local file holds the bytes stored for that   *)
(* id, chunk after chunk: those the record was written with, of the         *)
(* recorded length, whatever the file held before.                          *)
C7_DownloadReproduces ==
    (res.op = "download_to" /\ res.kind = "Ok")
        => /\ Id(res.name, "none") = Ok(res.val)
           /\ fs[res.path] = Stored(res.val)
           /\ fs[res.path] = want[res.val]
           /\ \A i \in DOMAIN files :
                 files[i].id = res.val => Len(fs[res.path]) = files[i].length

(* C8: an upload_from that returned Ok published one record under the      *)
(* name, returned its id, and that id is stored as the bytes read, those of *)
(* the local file; a failure to open or to read the local file is returned  *)
(* as IOError and publishes nothing.                                        *)
C8_UploadFromResult ==
    res.op = "upload_from"
        => /\ res.kind = "Ok" =>
                 /\ Cardinality({i \in DOMAIN files : files[i].id = res.val}) = 1
                 /\ files[Len(files)] =
                       [id |-> res.val, filename |-> res.name, length |-> Len(res.data)]
                 /\ Stored(res.val) = res.data
                 /\ Stored(res.val) = fs[res.path]
           /\ res.cause \in {"local_open", "local_read"} =>
                 /\ res.kind = "IOError"
                 /\ res.id # 0 => NoRecordOfId(res.id)

(* C9: download_to returns Ok only with the whole object in the local file: *)
(* a call in which something failed does not return Ok, and a call that     *)
(* returns Ok does not leave fewer bytes in the file than are stored.       *)
C9_NoSilentTruncation ==
    res.op = "download_to"
        => /\ res.cause # "none" => res.kind # "Ok"
           /\ res.kind = "Ok" => Len(fs[res.path]) >= Len(Stored(res.id))
           /\ res.kind \in {"Ok", "IOError", "MongoError", "FileNotFound", "Cancelled"}

(* C10: a download_to that fails in id returns that failure and leaves the  *)
(* local filesystem as it was.                                              *)
C10_IdFailureLeavesFile ==
    [][(res'.op = "download_to" /\ res'.cause \in {"id", "id_find", "id_item"})
          => /\ fs' = fs
             /\ res'.kind \in {"FileNotFound", "MongoError"}
             /\ (res'.cause = "id") <=> (res'.kind = "FileNotFound")]_vars

\* download_to has failed in id for want of a record, over a path that still
\* holds its file.
C10_Witness ==
    /\ res.op = "download_to" /\ res.cause = "id" /\ res.kind = "FileNotFound"
    /\ fs[res.path] # NoFile /\ fs[res.path] # <<>>

====
